---- MODULE Spec2Model ----
(***************************************************************************)
(* Model of gerar_relatorio.py: the benchmark pipeline that generates a    *)
(* synthetic partitioned Parquet dataset, writes one partition to Parquet, *)
(* CSV and a DuckDB file, times three fixed queries on each and writes a   *)
(* notebook report.                                                        *)
(*                                                                         *)
(* The filesystem outlives a process; every other variable is a local of   *)
(* one execution of main().  A step that does I/O either completes or      *)
(* raises; nothing in the script catches an exception, so a raise ends the *)
(* process.  Decimal numbers are kept in exact fixed point (units of       *)
(* 1/Escala); wall-clock durations are opaque values; the bytes of an      *)
(* artifact are whatever the encoder produced, drawn from Tamanhos.  A     *)
(* partition file is named by its number and holds a number of rows; the   *)
(* values of the rows live in the generation buffer `rows`.                *)
(***************************************************************************)
EXTENDS Integers, Sequences, FiniteSets, TLC

\* ------------------------------------------------------------------ bounds
MaxLinhas == 3
MaxChunk == 2
MaxExecucoes == 3

\* -------------------------------------------------------- configuration
OUT_DIR == <<"dados">>
PARQUET_DIR == OUT_DIR \o <<"vendas.parquet">>
CSV_FILE == OUT_DIR \o <<"vendas.csv">>
DUCKDB_FILE == OUT_DIR \o <<"vendas.duckdb">>
QUERIES == <<"vendas_por_loja", "ticket_medio_cliente", "produto_top_qtd">>

FORMATOS == <<"parquet", "csv", "duckdb">>

\* ------------------------------------------------------------ arithmetic
Min(a, b) == IF a <= b THEN a ELSE b

\* Fixed point: a decimal x is the integer x * Escala.
Escala == 100 * 100

Potencia10(d) == IF d = 0 THEN 1 ELSE IF d = 1 THEN 10 ELSE 100

\* num/den rounded to the nearest integer, ties to the even one (num >= 0).
ArredondaMeioPar(num, den) ==
    LET q == num \div den
        r == num % den
    IN  IF 2 * r < den THEN q
        ELSE IF 2 * r > den THEN q + 1
        ELSE IF q % 2 = 0 THEN q ELSE q + 1

\* round(x, d) of a non-negative fixed-point x, d in 0..2.
Round(x, d) ==
    LET passo == Escala \div Potencia10(d)
    IN  ArredondaMeioPar(x, passo) * passo

BytesPorMB == 1024 * 1024

\* round(size/1024/1024, 1), in tenths of a megabyte.
SizeMB(size) == ArredondaMeioPar(size * 10, BytesPorMB)

\* ------------------------------------------------------------ filesystem
SemParticoes == [p \in {} |-> 0]

Ausente == [tipo |-> "ausente", parts |-> SemParticoes, linhas |-> 0]

\* A directory of partition files: part number -> rows stored in it.
Diretorio(parts) == [tipo |-> "dir", parts |-> parts, linhas |-> 0]

\* A text file of `linhas` lines.
ArquivoCsv(linhas) == [tipo |-> "csv", parts |-> SemParticoes, linhas |-> linhas]

\* A database file whose table vendas holds `linhas` rows.
ArquivoDuckdb(linhas) == [tipo |-> "duckdb", parts |-> SemParticoes, linhas |-> linhas]

Exists(f, p) == f[p].tipo # "ausente"

Grava(f, p, conteudo) == [q \in DOMAIN f |-> IF q = p THEN conteudo ELSE f[q]]

\* Path.mkdir: an empty directory at p.
Mkdir(f, p) == Grava(f, p, Diretorio(SemParticoes))

\* shutil.rmtree / Path.unlink: nothing is left at p.
Rmtree(f, p) == Grava(f, p, Ausente)

Unlink(f, p) == Grava(f, p, Ausente)

\* df.to_parquet(dir / part_<numero>.parquet): that one file is (re)written.
ToParquet(f, dir, numero, k) ==
    Grava(f, dir, Diretorio([q \in DOMAIN f[dir].parts \cup {numero} |->
                                IF q = numero THEN k ELSE f[dir].parts[q]]))

\* Variant of ToCsv that opens the file in append mode.
ToCsvAnexa(f, p, k) == Grava(f, p, ArquivoCsv(f[p].linhas + 1 + k))

\* df.to_csv(p, index=False): truncates, then a header line and one line per row.
ToCsv(f, p, k) == Grava(f, p, ArquivoCsv(1 + k))

\* duckdb.connect(p); CREATE TABLE vendas AS SELECT * FROM df; close.
CreateTable(f, p, k) == Grava(f, p, ArquivoDuckdb(k))

RECURSIVE Soma(_, _)
Soma(g, S) == IF S = {} THEN 0
              ELSE LET x == CHOOSE y \in S : TRUE IN g[x] + Soma(g, S \ {x})

\* read_parquet('<dir>/*.parquet'): the rows of every partition file.
ReadParquet(f, dir) == Soma(f[dir].parts, DOMAIN f[dir].parts)

\* read_csv_auto(p): the first line is the header.
ReadCsvAuto(f, p) == f[p].linhas - 1

\* ATTACH p; USE db: the table vendas of the database file.
AttachVendas(f, p) == f[p].linhas

\* The relation vendas that the session of executar_queries(fmt) exposes.
Vendas(f, fmt) ==
    IF fmt = "parquet" THEN ReadParquet(f, PARQUET_DIR)
    ELSE IF fmt = "csv" THEN ReadCsvAuto(f, CSV_FILE)
    ELSE AttachVendas(f, DUCKDB_FILE)

\* The artifact path medir_gravacao(fmt) measures.
Path(fmt) ==
    IF fmt = "parquet" THEN PARQUET_DIR
    ELSE IF fmt = "csv" THEN CSV_FILE
    ELSE DUCKDB_FILE

\* ---------------------------------------------------------- generated row
\* fake.random_int(1, 6)
Quantidades == 1..6

\* fake.random_number(digits=4) is in 0..9999; sampled at both ends and at a
\* value whose products have a 5 in the second decimal place.
Numeros4 == {0, 5, 9999}

\* Variant of Linha that rounds the total to one decimal place.
LinhaUmaCasa(qtde, numero) ==
    LET preco == Round((numero * Escala) \div 100, 2)
    IN  [quantidade |-> qtde, preco_unitario |-> preco,
         total |-> Round(qtde * preco, 1)]

\* One row: [qtde, preco, round(qtde*preco, 2)], preco = round(numero/100, 2).
Linha(qtde, numero) ==
    LET preco == Round((numero * Escala) \div 100, 2)
    IN  [quantidade |-> qtde, preco_unitario |-> preco,
         total |-> Round(qtde * preco, 2)]

\* --------------------------------------------------------- measurements
\* round(time.time() - start, 3): an opaque reading.
Duracoes == {0}

\* st_size totals the filesystem may report for an artifact, in bytes.
Tamanhos == {4 * 1024, BytesPorMB \div 20, (BytesPorMB \div 20) + 1, BytesPorMB \div 4}

Upper(fmt) ==
    IF fmt = "parquet" THEN "PARQUET"
    ELSE IF fmt = "csv" THEN "CSV"
    ELSE "DUCKDB"

SemTempos == [q \in {} |-> 0]

\* Variant of ComTempo that stores every duration under one literal key.
ComTempoChaveFixa(tempos, nome, t) ==
    [q \in DOMAIN tempos \cup {"nome"} |-> IF q = "nome" THEN t ELSE tempos[q]]

\* tempos[nome] = t
ComTempo(tempos, nome, t) ==
    [q \in DOMAIN tempos \cup {nome} |-> IF q = nome THEN t ELSE tempos[q]]

\* Variant of Registro that leaves the size out of the record.
RegistroSemTamanho(fmt, t_write, size_mb, tempos) ==
    [c \in {<<"Formato">>, <<"Write_s">>}
            \cup {<<q, "_s">> : q \in DOMAIN tempos} |->
        IF c = <<"Formato">> THEN Upper(fmt)
        ELSE IF c = <<"Write_s">> THEN t_write
        ELSE tempos[c[1]]]

\* {"Formato": .., "Write_s": .., "Size_MB": .., **{f"{q}_s": t}}
Registro(fmt, t_write, size_mb, tempos) ==
    [c \in {<<"Formato">>, <<"Write_s">>, <<"Size_MB">>}
            \cup {<<q, "_s">> : q \in DOMAIN tempos} |->
        IF c = <<"Formato">> THEN Upper(fmt)
        ELSE IF c = <<"Write_s">> THEN t_write
        ELSE IF c = <<"Size_MB">> THEN size_mb
        ELSE tempos[c[1]]]

\* ------------------------------------------------------------------ state
VARIABLES
    N_LINHAS,       \* configured total row count
    CHUNK,          \* configured rows per generated chunk
    fs,             \* path -> what is on disk there
    relatorio,      \* execution that last wrote relatorio.ipynb, 0 if none
    execucao,       \* number of the running execution of main()
    pc,             \* position of the running execution
    excecao,        \* an exception was raised in the running execution
    linhas_rest, part, n, rows,             \* locals of gerar_dados
    df_sample,      \* rows of the partition loaded in main, -1 before the load
    i,              \* index in FORMATOS of the format being measured
    t_write, size_mb,                       \* returned by medir_gravacao
    vendas,         \* rows of the session's relation vendas, -1 if no session
    consulta,       \* index in QUERIES of the next query
    executadas,     \* queries executed on the session, in order
    tempos,         \* query name -> duration
    formatos        \* list of measurement records

vars == <<N_LINHAS, CHUNK, fs, relatorio, execucao, pc, excecao, linhas_rest, part, n,
          rows, df_sample, i, t_write, size_mb, vendas, consulta, executadas,
          tempos, formatos>>

config == <<N_LINHAS, CHUNK>>
gerador == <<linhas_rest, part, n, rows>>
sessao == <<vendas, consulta, executadas, tempos>>
medida == <<t_write, size_mb>>

fmt == FORMATOS[i]

\* Locals of a fresh process.
Locais ==
    /\ linhas_rest = 0 /\ part = 0 /\ n = 0 /\ rows = <<>>
    /\ df_sample = -1 /\ i = 1 /\ t_write = 0 /\ size_mb = 0
    /\ vendas = -1 /\ consulta = 1 /\ executadas = <<>> /\ tempos = SemTempos
    /\ formatos = <<>>

Init ==
    /\ N_LINHAS \in 0..MaxLinhas
    /\ CHUNK \in 1..MaxChunk
    /\ fs = [p \in {OUT_DIR, PARQUET_DIR, CSV_FILE, DUCKDB_FILE} |-> Ausente]
    /\ relatorio = 0
    /\ execucao = 1
    /\ pc = "main"
    /\ excecao = FALSE
    /\ Locais

\* ------------------------------------------------------------------- main
\* OUT_DIR.mkdir(exist_ok=True); gerar_dados() is entered.
MainMkdir ==
    /\ pc = "main"
    /\ fs' = IF Exists(fs, OUT_DIR) THEN fs ELSE Mkdir(fs, OUT_DIR)
    /\ pc' = "gd_exists"
    /\ UNCHANGED <<config, excecao, relatorio, execucao, gerador, df_sample, i, medida,
                   sessao, formatos>>

\* ------------------------------------------------------------ gerar_dados
\* if PARQUET_DIR.exists(): return
GerarDadosExiste ==
    /\ pc = "gd_exists"
    /\ Exists(fs, PARQUET_DIR)
    /\ pc' = "main_sample"
    /\ UNCHANGED <<config, excecao, fs, relatorio, execucao, gerador, df_sample, i,
                   medida, sessao, formatos>>

\* Variant of GerarDadosMkdir without the test that the dataset is absent.
GerarDadosMkdirSemTeste ==
    /\ pc = "gd_exists"
    /\ fs' = Mkdir(fs, PARQUET_DIR)
    /\ linhas_rest' = N_LINHAS
    /\ part' = 0
    /\ pc' = "gd_while"
    /\ UNCHANGED <<config, excecao, relatorio, execucao, n, rows, df_sample, i,
                   medida, sessao, formatos>>

\* PARQUET_DIR.mkdir(parents=True, exist_ok=True); linhas_rest = N_LINHAS; part = 0
GerarDadosMkdir ==
    /\ pc = "gd_exists"
    /\ ~Exists(fs, PARQUET_DIR)
    /\ fs' = Mkdir(fs, PARQUET_DIR)
    /\ linhas_rest' = N_LINHAS
    /\ part' = 0
    /\ pc' = "gd_while"
    /\ UNCHANGED <<config, excecao, relatorio, execucao, n, rows, df_sample, i, medida,
                   sessao, formatos>>

\* Variant of TamanhoChunk that always takes a full chunk.
TamanhoChunkFixo(chunk, rest) == chunk

\* rows in the next chunk: n = min(CHUNK, linhas_rest)
TamanhoChunk(chunk, rest) == Min(chunk, rest)

\* while linhas_rest > 0: n = min(CHUNK, linhas_rest); rows = []
GerarChunk ==
    /\ pc = "gd_while"
    /\ linhas_rest > 0
    /\ n' = TamanhoChunk(CHUNK, linhas_rest)
    /\ rows' = <<>>
    /\ pc' = "gd_for"
    /\ UNCHANGED <<config, excecao, fs, relatorio, execucao, linhas_rest, part,
                   df_sample, i, medida, sessao, formatos>>

\* for _ in range(n): rows.append([...])
GerarLinha ==
    /\ pc = "gd_for"
    /\ Len(rows) < n
    /\ \E qtde \in Quantidades, numero \in Numeros4 :
          rows' = Append(rows, Linha(qtde, numero))
    /\ UNCHANGED <<config, excecao, fs, relatorio, execucao, pc, linhas_rest, part, n,
                   df_sample, i, medida, sessao, formatos>>

\* df.to_parquet(PARQUET_DIR / part_<part>.parquet); linhas_rest -= n; part += 1
GerarParticao ==
    /\ pc = "gd_for"
    /\ Len(rows) >= n
    /\ fs' = ToParquet(fs, PARQUET_DIR, part, Len(rows))
    /\ linhas_rest' = linhas_rest - n
    /\ part' = part + 1
    /\ pc' = "gd_while"
    /\ UNCHANGED <<config, excecao, relatorio, execucao, n, rows, df_sample, i, medida,
                   sessao, formatos>>

\* the while loop ends; gerar_dados returns and its locals are gone
GerarDadosFim ==
    /\ pc = "gd_while"
    /\ linhas_rest <= 0
    /\ pc' = "main_sample"
    /\ linhas_rest' = 0 /\ part' = 0 /\ n' = 0 /\ rows' = <<>>
    /\ UNCHANGED <<config, excecao, fs, relatorio, execucao, df_sample, i, medida,
                   sessao, formatos>>

\* df_sample = pd.read_parquet(next(PARQUET_DIR.glob("*.parquet"))); formatos = []
\* glob yields the files in directory order, which the script does not fix.
CarregarSample ==
    /\ pc = "main_sample"
    /\ \E p \in DOMAIN fs[PARQUET_DIR].parts :
          df_sample' = fs[PARQUET_DIR].parts[p]
    /\ formatos' = <<>>
    /\ i' = 1
    /\ pc' = "mg_inicio"
    /\ UNCHANGED <<config, excecao, fs, relatorio, execucao, gerador, medida, sessao>>

\* --------------------------------------------------------- medir_gravacao
\* fmt == "parquet": if PARQUET_DIR.exists(): shutil.rmtree(PARQUET_DIR)
MedirParquetRmtree ==
    /\ pc = "mg_inicio"
    /\ fmt = "parquet"
    /\ fs' = IF Exists(fs, PARQUET_DIR) THEN Rmtree(fs, PARQUET_DIR) ELSE fs
    /\ pc' = "mg_mkdir"
    /\ UNCHANGED <<config, excecao, relatorio, execucao, gerador, df_sample, i, medida,
                   sessao, formatos>>

\* PARQUET_DIR.mkdir(): raises when the path exists
MedirParquetMkdir ==
    /\ pc = "mg_mkdir"
    /\ ~Exists(fs, PARQUET_DIR)
    /\ fs' = Mkdir(fs, PARQUET_DIR)
    /\ pc' = "mg_write"
    /\ UNCHANGED <<config, excecao, relatorio, execucao, gerador, df_sample, i, medida,
                   sessao, formatos>>

\* df.to_parquet(PARQUET_DIR / "part_00000.parquet", index=False)
MedirParquetWrite ==
    /\ pc = "mg_write"
    /\ fmt = "parquet"
    /\ fs' = ToParquet(fs, PARQUET_DIR, 0, df_sample)
    /\ pc' = "mg_size"
    /\ UNCHANGED <<config, excecao, relatorio, execucao, gerador, df_sample, i, medida,
                   sessao, formatos>>

\* fmt == "csv": df.to_csv(CSV_FILE, index=False)
MedirCsv ==
    /\ pc = "mg_inicio"
    /\ fmt = "csv"
    /\ fs' = ToCsv(fs, CSV_FILE, df_sample)
    /\ pc' = "mg_size"
    /\ UNCHANGED <<config, excecao, relatorio, execucao, gerador, df_sample, i, medida,
                   sessao, formatos>>

\* Variant of MedirDuckdbUnlink that removes the CSV file instead.
MedirDuckdbUnlinkCsv ==
    /\ pc = "mg_inicio"
    /\ fmt = "duckdb"
    /\ fs' = IF Exists(fs, DUCKDB_FILE) THEN Unlink(fs, CSV_FILE) ELSE fs
    /\ pc' = "mg_write"
    /\ UNCHANGED <<config, excecao, relatorio, execucao, gerador, df_sample, i,
                   medida, sessao, formatos>>

\* fmt == "duckdb": if DUCKDB_FILE.exists(): DUCKDB_FILE.unlink()
MedirDuckdbUnlink ==
    /\ pc = "mg_inicio"
    /\ fmt = "duckdb"
    /\ fs' = IF Exists(fs, DUCKDB_FILE) THEN Unlink(fs, DUCKDB_FILE) ELSE fs
    /\ pc' = "mg_write"
    /\ UNCHANGED <<config, excecao, relatorio, execucao, gerador, df_sample, i, medida,
                   sessao, formatos>>

\* con = duckdb.connect(DUCKDB_FILE); CREATE TABLE vendas AS SELECT * FROM df; con.close()
MedirDuckdbCreate ==
    /\ pc = "mg_write"
    /\ fmt = "duckdb"
    /\ fs' = CreateTable(fs, DUCKDB_FILE, df_sample)
    /\ pc' = "mg_size"
    /\ UNCHANGED <<config, excecao, relatorio, execucao, gerador, df_sample, i, medida,
                   sessao, formatos>>

\* dur = round(time.time()-start, 3); size = bytes under path; return dur, round(size/1024/1024, 1)
MedirTamanho ==
    /\ pc = "mg_size"
    /\ Exists(fs, Path(fmt))
    /\ \E dur \in Duracoes, size \in Tamanhos :
          /\ t_write' = dur
          /\ size_mb' = SizeMB(size)
    /\ pc' = "eq_connect"
    /\ UNCHANGED <<config, excecao, fs, relatorio, execucao, gerador, df_sample, i,
                   sessao, formatos>>

\* ------------------------------------------------------- executar_queries
\* con = duckdb.connect(":memory:"); CREATE VIEW vendas ... / ATTACH ...; tempos = {}
AbrirSessao ==
    /\ pc = "eq_connect"
    /\ Exists(fs, Path(fmt))
    /\ vendas' = Vendas(fs, fmt)
    /\ consulta' = 1
    /\ executadas' = <<>>
    /\ tempos' = SemTempos
    /\ pc' = "eq_query"
    /\ UNCHANGED <<config, excecao, fs, relatorio, execucao, gerador, df_sample, i,
                   medida, formatos>>

\* for nome, sql in QUERIES.items(): con.execute(sql).fetchall(); tempos[nome] = ...
ExecutarQuery ==
    /\ pc = "eq_query"
    /\ consulta <= Len(QUERIES)
    /\ executadas' = Append(executadas, QUERIES[consulta])
    /\ \E dur \in Duracoes : tempos' = ComTempo(tempos, QUERIES[consulta], dur)
    /\ consulta' = consulta + 1
    /\ UNCHANGED <<config, excecao, fs, relatorio, execucao, pc, gerador, df_sample, i,
                   medida, vendas, formatos>>

\* con.close(); return tempos
FecharSessao ==
    /\ pc = "eq_query"
    /\ consulta > Len(QUERIES)
    /\ vendas' = -1
    /\ pc' = "main_append"
    /\ UNCHANGED <<config, excecao, fs, relatorio, execucao, gerador, df_sample, i,
                   medida, consulta, executadas, tempos, formatos>>

\* ------------------------------------------------------- main, continued
\* formatos.append({...}); the for loop moves to the next format or ends
MainAppend ==
    /\ pc = "main_append"
    /\ formatos' = Append(formatos, Registro(fmt, t_write, size_mb, tempos))
    /\ IF i < Len(FORMATOS)
         THEN i' = i + 1 /\ pc' = "mg_inicio"
         ELSE i' = i /\ pc' = "main_relatorio"
    /\ UNCHANGED <<config, excecao, fs, relatorio, execucao, gerador, df_sample, medida,
                   sessao>>

\* df_res = pd.DataFrame(formatos); the notebook is built; nbformat.write(nb, f)
EscreverRelatorio ==
    /\ pc = "main_relatorio"
    /\ relatorio' = execucao
    /\ pc' = "fim"
    /\ UNCHANGED <<config, excecao, fs, execucao, gerador, df_sample, i, medida, sessao,
                   formatos>>

\* ---------------------------------------------------------------- failure
\* Positions whose statement does I/O and so may raise.
PontosDeFalha == {"main", "gd_exists", "gd_for", "main_sample", "mg_inicio",
                  "mg_mkdir", "mg_write", "mg_size", "eq_connect", "eq_query",
                  "main_relatorio"}

\* Variant of AposExcecao in which a failed measurement is skipped over.
AposExcecaoContinua(p) ==
    IF p \in {"mg_inicio", "mg_mkdir", "mg_write", "mg_size", "eq_connect",
              "eq_query"}
    THEN "main_append" ELSE "abortado"

\* Where control goes when the statement at p raises: no handler anywhere in
\* the script, the exception leaves main() and the process ends.
AposExcecao(p) == "abortado"

\* The statement at pc raises before it changes anything.
Falha ==
    /\ pc \in PontosDeFalha
    /\ pc = "gd_for" => Len(rows) >= n
    /\ pc = "eq_query" => consulta <= Len(QUERIES)
    /\ excecao' = TRUE
    /\ pc' = AposExcecao(pc)
    /\ UNCHANGED <<config, fs, relatorio, execucao, gerador, df_sample, i,
                   medida, sessao, formatos>>

\* next(...) on a directory with no partition file raises StopIteration.
SemParticao ==
    /\ pc = "main_sample"
    /\ DOMAIN fs[PARQUET_DIR].parts = {}
    /\ excecao' = TRUE
    /\ pc' = AposExcecao(pc)
    /\ UNCHANGED <<config, fs, relatorio, execucao, gerador, df_sample, i,
                   medida, sessao, formatos>>

\* The script is run again: a new process, the same disk.
NovaExecucao ==
    /\ pc \in {"fim", "abortado"}
    /\ execucao < MaxExecucoes
    /\ execucao' = execucao + 1
    /\ excecao' = FALSE
    /\ pc' = "main"
    /\ linhas_rest' = 0 /\ part' = 0 /\ n' = 0 /\ rows' = <<>>
    /\ df_sample' = -1 /\ i' = 1 /\ t_write' = 0 /\ size_mb' = 0
    /\ vendas' = -1 /\ consulta' = 1 /\ executadas' = <<>> /\ tempos' = SemTempos
    /\ formatos' = <<>>
    /\ UNCHANGED <<config, fs, relatorio>>

Next ==
    \/ MainMkdir
    \/ GerarDadosExiste
    \/ GerarDadosMkdir
    \/ GerarChunk
    \/ GerarLinha
    \/ GerarParticao
    \/ GerarDadosFim
    \/ CarregarSample
    \/ SemParticao
    \/ MedirParquetRmtree
    \/ MedirParquetMkdir
    \/ MedirParquetWrite
    \/ MedirCsv
    \/ MedirDuckdbUnlink
    \/ MedirDuckdbCreate
    \/ MedirTamanho
    \/ AbrirSessao
    \/ ExecutarQuery
    \/ FecharSessao
    \/ MainAppend
    \/ EscreverRelatorio
    \/ Falha
    \/ NovaExecucao

Spec == Init /\ [][Next]_vars

TypeOK ==
    /\ N_LINHAS \in 0..MaxLinhas
    /\ CHUNK \in 1..MaxChunk
    /\ execucao \in 1..MaxExecucoes
    /\ relatorio \in 0..MaxExecucoes
    /\ i \in 1..Len(FORMATOS)
    /\ excecao \in BOOLEAN
    /\ df_sample \in -1..MaxChunk
    /\ vendas \in -1..MaxLinhas

\* ------------------------------------------------------------- properties
Particoes == fs[PARQUET_DIR].parts

EmGerarDados == pc \in {"gd_exists", "gd_while", "gd_for"}

EmMedirGravacao == pc \in {"mg_inicio", "mg_mkdir", "mg_write", "mg_size"}

EmExecutarQueries == pc \in {"eq_connect", "eq_query"}

\* C1: gerar_dados() called while the Parquet dataset directory exists returns
\* (or the process ends) without creating, deleting or modifying anything on
\* disk, so a second call leaves the dataset as the first one left it.
C1_GerarDadosIdempotente ==
    [][(pc = "gd_exists" /\ Exists(fs, PARQUET_DIR))
          => (fs' = fs /\ pc' \in {"gd_exists", "main_sample", "abortado"})]_vars

\* A second execution whose gerar_dados() found the dataset of a completed
\* first execution and returned.
C1_Witness ==
    /\ execucao = 2
    /\ relatorio = 1
    /\ pc = "main_sample"
    /\ Exists(fs, PARQUET_DIR)

\* ceil(linhas / chunk)
NumParticoes(linhas, chunk) == (linhas + chunk - 1) \div chunk

\* Strictly decreases on every step of the generation loop and is never negative.
Variante ==
    IF pc = "gd_while" THEN linhas_rest * (CHUNK + 2)
    ELSE linhas_rest * (CHUNK + 2) - 1 - Len(rows)

C2_Invariante ==
    /\ Len(rows) <= CHUNK
    /\ pc \in {"gd_while", "gd_for"} =>
          /\ DOMAIN Particoes = 0..(part - 1)
          /\ linhas_rest + ReadParquet(fs, PARQUET_DIR) = N_LINHAS
          /\ Variante >= 0
    /\ (pc = "gd_while" /\ linhas_rest <= 0) =>
          /\ DOMAIN Particoes = 0..(NumParticoes(N_LINHAS, CHUNK) - 1)
          /\ \A p \in DOMAIN Particoes :
                /\ Particoes[p] <= CHUNK
                /\ Particoes[p] >= 1
                /\ p < NumParticoes(N_LINHAS, CHUNK) - 1 => Particoes[p] = CHUNK
          /\ ReadParquet(fs, PARQUET_DIR) = N_LINHAS

C2_Passo ==
    /\ (pc \in {"gd_while", "gd_for"} /\ pc' \in {"gd_while", "gd_for"})
          => Variante' < Variante
    /\ (pc = "gd_for" /\ pc' = "gd_while")
          => DOMAIN Particoes' = DOMAIN Particoes \cup {Cardinality(DOMAIN Particoes)}

\* C2: when the dataset directory is absent, the generation loop ends (its
\* variant strictly decreases and is bounded below) having written
\* ceil(N_LINHAS / CHUNK) partition files numbered 0, 1, 2, ... in order, each of
\* at most CHUNK rows and all but the last of exactly CHUNK rows, summing to
\* N_LINHAS; the row buffer never holds more than CHUNK rows.
C2_GeracaoEmChunks == []C2_Invariante /\ [][C2_Passo]_vars

\* Generation finished with a full partition followed by a shorter last one.
C2_Witness ==
    /\ pc = "gd_while"
    /\ linhas_rest = 0
    /\ N_LINHAS = 3
    /\ CHUNK = 2
    /\ DOMAIN Particoes = {0, 1}
    /\ Particoes[0] = 2
    /\ Particoes[1] = 1

\* C3: in the session that executar_queries(fmt) opens after
\* medir_gravacao(df_sample, fmt), the relation vendas has exactly the rows of
\* the table written, whatever was at the format's path before the write.
C3_RoundTrip ==
    pc = "eq_query" => vendas = df_sample

\* First execution, 3 rows generated in partitions of 2 and 1: the one-row
\* partition was written over the two-partition dataset and read back.
C3_Witness ==
    /\ pc = "eq_query"
    /\ fmt = "parquet"
    /\ execucao = 1
    /\ N_LINHAS = 3
    /\ CHUNK = 2
    /\ df_sample = 1
    /\ vendas = 1

CaminhosDistintos ==
    /\ PARQUET_DIR # CSV_FILE
    /\ PARQUET_DIR # DUCKDB_FILE
    /\ CSV_FILE # DUCKDB_FILE

\* C4 as stated: the three storage paths are pairwise distinct and anything
\* under a format's path is created, deleted or modified only by
\* medir_gravacao called with that format.
C4_EscritaExclusiva ==
    /\ []CaminhosDistintos
    /\ [][\A f \in {"parquet", "csv", "duckdb"} :
             fs'[Path(f)] # fs[Path(f)] => (EmMedirGravacao /\ fmt = f)]_vars

\* C4, amended: the three storage paths are pairwise distinct and anything
\* under a format's path is created, deleted or modified only by
\* medir_gravacao called with that format or, for the Parquet path alone, by
\* gerar_dados when it found no dataset directory.
C4_EscritaPorFormatoOuGeracao ==
    /\ []CaminhosDistintos
    /\ [][\A f \in {"parquet", "csv", "duckdb"} :
             fs'[Path(f)] # fs[Path(f)] =>
                \/ EmMedirGravacao /\ fmt = f
                \/ /\ f = "parquet"
                   /\ EmGerarDados
                   /\ pc = "gd_exists" => ~Exists(fs, PARQUET_DIR)]_vars

\* gerar_dados has written two partitions under the Parquet path in an
\* execution that found a CSV file and a database file of an earlier one.
C4_Witness ==
    /\ pc = "gd_while"
    /\ DOMAIN Particoes = {0, 1}
    /\ execucao > 1
    /\ Exists(fs, CSV_FILE)
    /\ Exists(fs, DUCKDB_FILE)

\* C5: the size in megabytes returned by medir_gravacao is strictly positive,
\* for every format and every table written.
C5_TamanhoPositivo ==
    pc = "eq_connect" => size_mb > 0

\* One cent, in fixed point.
Centavo == Escala \div 100

\* C6: in every generated row the quantity is in 1..6, the unit price is a
\* whole number of cents in 0..9999 and the total, in cents, is the quantity
\* times the price in cents.
C6_TotalDaLinha ==
    \A k \in 1..Len(rows) :
        /\ rows[k].quantidade \in 1..6
        /\ rows[k].preco_unitario % Centavo = 0
        /\ rows[k].preco_unitario \div Centavo \in 0..9999
        /\ rows[k].total % Centavo = 0
        /\ rows[k].total \div Centavo
              = rows[k].quantidade * (rows[k].preco_unitario \div Centavo)

\* A chunk of two rows about to be written, one of them 3 x 0.05 = 0.15.
C6_Witness ==
    /\ pc = "gd_for"
    /\ Len(rows) = 2
    /\ rows[1].quantidade = 3
    /\ rows[1].preco_unitario = 5 * Centavo
    /\ rows[1].total = 15 * Centavo
    /\ rows[2].total = 6 * 9999 * Centavo

Nomes(seq) == {seq[k] : k \in 1..Len(seq)}

\* C7: executar_queries(fmt) runs the queries of QUERIES once each in
\* insertion order, and the mapping it returns has exactly the three query
\* names as keys, whatever the format.
C7_QueriesEmOrdem ==
    /\ pc = "eq_query" =>
          /\ executadas = SubSeq(QUERIES, 1, consulta - 1)
          /\ DOMAIN tempos = Nomes(executadas)
    /\ pc = "main_append" =>
          /\ executadas = QUERIES
          /\ DOMAIN tempos
                = {"vendas_por_loja", "ticket_medio_cliente", "produto_top_qtd"}

\* executar_queries("duckdb") has returned its mapping.
C7_Witness ==
    /\ pc = "main_append"
    /\ fmt = "duckdb"
    /\ Len(executadas) = 3
    /\ Cardinality(DOMAIN tempos) = 3

ChavesDoRegistro ==
    {<<"Formato">>, <<"Write_s">>, <<"Size_MB">>, <<"vendas_por_loja", "_s">>,
     <<"ticket_medio_cliente", "_s">>, <<"produto_top_qtd", "_s">>}

C8_Invariante ==
    /\ Len(formatos) <= Len(FORMATOS)
    /\ \A k \in 1..Len(formatos) :
          /\ DOMAIN formatos[k] = ChavesDoRegistro
          /\ formatos[k][<<"Formato">>] = Upper(FORMATOS[k])
    /\ (EmMedirGravacao \/ EmExecutarQueries \/ pc = "main_append")
          => Len(formatos) = i - 1
    /\ pc \in {"main_relatorio", "fim"} => Len(formatos) = Len(FORMATOS)

C8_Passo ==
    Len(formatos') > Len(formatos) =>
        /\ pc = "main_append"
        /\ Len(formatos') = Len(formatos) + 1
        /\ SubSeq(formatos', 1, Len(formatos)) = formatos
        /\ formatos'[Len(formatos')][<<"Formato">>] = Upper(fmt)
        /\ Exists(fs, Path(fmt))
        /\ Vendas(fs, fmt) = df_sample
        /\ executadas = QUERIES
        /\ vendas = -1

\* C8: formatos holds at most one record per format, in the order parquet,
\* csv, duckdb, each with the write duration, the size and the three query
\* durations; it holds all three when the loop has finished; and a record is
\* appended only when that format's artifact is written and its query batch
\* has run and its session is closed.
C8_UmRegistroPorFormato == []C8_Invariante /\ [][C8_Passo]_vars

\* The loop has finished with the three records.
C8_Witness ==
    /\ pc = "main_relatorio"
    /\ Len(formatos) = 3
    /\ formatos[1][<<"Formato">>] = "PARQUET"
    /\ formatos[2][<<"Formato">>] = "CSV"
    /\ formatos[3][<<"Formato">>] = "DUCKDB"

C9_Invariante ==
    excecao => (pc = "abortado" /\ relatorio # execucao)

C9_Passo ==
    /\ excecao =>
          /\ fs' = fs
          /\ relatorio' = relatorio
          /\ formatos' = formatos \/ execucao' = execucao + 1
          /\ pc' \in {"abortado", "main"}
    /\ (~excecao /\ excecao') =>
          /\ fs' = fs
          /\ relatorio' = relatorio
          /\ formatos' = formatos

\* C9: once a statement has raised, the execution does nothing more: no write
\* or query of a later format starts, no record is appended, the report is not
\* written by that execution, and what is on disk stays as it was when the
\* statement raised.
C9_FalhaAborta == []C9_Invariante /\ [][C9_Passo]_vars

\* The CSV measurement failed after the CSV file was written: one record, of
\* Parquet, and the CSV file still on disk.
C9_Witness ==
    /\ excecao
    /\ pc = "abortado"
    /\ i = 2
    /\ Len(formatos) = 1
    /\ Exists(fs, CSV_FILE)
    /\ ~Exists(fs, DUCKDB_FILE)

\* C10: whenever gerar_dados() has returned, the dataset directory holds
\* exactly N_LINHAS rows in at least one partition file.
C10_DatasetCompleto ==
    pc = "main_sample" =>
        /\ DOMAIN Particoes # {}
        /\ ReadParquet(fs, PARQUET_DIR) = N_LINHAS

====
